---- MODULE Spec2Model ----
(***************************************************************************)
(* Model of two programs of the repository:                                *)
(*   - MR::Registration::Linear (lib/registration/linear.h): the           *)
(*     configuration setters and the multi-resolution driver run_masked;   *)
(*   - the command mt_lognorm (cmd/mt_lognorm.cpp): the iteration          *)
(*     structure of run().                                                 *)
(* Reals are scaled integers: scale factors and sparsities are in tenths   *)
(* (0.5 is 5, 1.0 is 10), mt_lognorm scale factors are in thousandths.     *)
(***************************************************************************)
EXTENDS Integers, Sequences, FiniteSets, TLC

\* ---------------------------------------------------------------- bounds
\* longest scale_factor array a caller passes (number of resolution levels)
MaxLevels == 1
\* longest max_iter array a caller passes
MaxIterLen == 1
\* longest sparsity array a caller passes
MaxSparsityLen == 1
\* longest kernel extent array a caller passes
MaxExtentLen == 1
\* number of distinct transform parameter vectors (a cyclic group Z_n)
ParamN == 3
\* largest value given to mt_lognorm -maxiter
MaxLnIter == 3
MaxVoxels == 3

\* ------------------------------------------------------- input alphabets
SeqsUpTo(S, n) == UNION { [1..k -> S] : k \in 0..n }

IterVals == {-1, 0, 300}
ScaleVals == {0, 5, 10, 15}
SparsityVals == {0, 5, 11}
ExtentVals == {0, 2}

IterInputs == SeqsUpTo(IterVals, MaxIterLen)
ScaleInputs == SeqsUpTo(ScaleVals, MaxLevels)
SparsityInputs == SeqsUpTo(SparsityVals, MaxSparsityLen)
ExtentInputs == SeqsUpTo(ExtentVals, MaxExtentLen)
InitTypes == {"mass", "geometric", "none"}
\* smoothing factors in tenths, tolerances as decimal exponents (1.0e-6 is -6),
\* direction matrices by their number of columns
SmoothVals == {-10, 0, 10}
ToleranceVals == {-6, -3}
DirectionVals == {0, 60}
ParamVals == 0..(ParamN - 1)

\* error messages of linear.h
ErrMaxIter == "the number of iterations must be positive"
ErrScale == "the scale factor for each multi-resolution level must be between 0 and 1"
ErrExtent == "the neighborhood kernel extent must be at least 1 voxel"
ErrSparsity == "sparsity must be between 0.0 and 1.0"
ErrMaxIterLen == "the max number of iterations needs to be defined for each multi-resolution level"
ErrSparsityLen == "the sparsity level needs to be defined for each multi-resolution level"
ErrSmooth == "the smoothing factor must be non-negative"
NoError == "none"

VARIABLES
  \* Linear: configuration members
  max_iter, scale_factor, sparsity, kernel_extent, init_type,
  smooth_factor, grad_tolerance, directions,
  \* run_masked: the midway image and its resized copy of the current level
  midway_image, midway_resized,
  \* the caller's transform object: parameter vector and the two half transforms
  transform,
  \* position of run_masked, loop variable, optimizer state
  pc, level, optim_start, optim_state,
  \* observation of the most recent call: which call, the exception it threw,
  \* the per-level arrays on entry of run_masked, the operations it performed,
  \* the number of set_parameter_vector calls it made
  call, error, entry, log, writes,
  \* mt_lognorm run(): locals
  ln_pc, ln_max_iter, iter, norm_iter, norm_converged,
  scale_factors, previous_scale_factors,
  \* mt_lognorm run(): the three masks and the voxel count, the quartile
  \* indices of the last outlier rejection, the bias field, what was written
  orig_mask, initial_mask, mask, num_voxels, quartiles,
  bias_field, output

\* members the array setters and the driver leave alone
cfgmore == <<smooth_factor, grad_tolerance, directions>>
linvars == <<max_iter, scale_factor, sparsity, kernel_extent, init_type,
             cfgmore, midway_image, midway_resized, transform, pc, level, optim_start, optim_state,
             call, error, entry, log, writes>>
lnloop == <<ln_max_iter, iter, norm_iter, norm_converged,
            scale_factors, previous_scale_factors>>
lnmask == <<orig_mask, initial_mask, mask, num_voxels, quartiles>>
lnout == <<bias_field, output>>
lnvars == <<ln_pc, lnloop, lnmask, lnout>>
vars == <<linvars, lnvars>>

\* ------------------------------------------------------------ std::vector
\* std::vector::resize (n, val)
Resize(v, n, val) == [i \in 1..n |-> IF i <= Len(v) THEN v[i] ELSE val]

\* ------------------------------------------------------ transform object
\* the parameter vector p stands for the half transform; composition of
\* transforms is addition in Z_ParamN and the identity is 0
Compose(a, b) == (a + b) % ParamN
Inverse(a) == (ParamN - a) % ParamN
Identity == 0

\* TransformType::set_parameter_vector: both views follow the one vector
SetParameterVector(tr, p) == [param |-> p, half |-> p, half_inv |-> Inverse(p)]

\* Evaluate / GradientDescent: the optimizer starts from the parameters
\* the transform holds when the metric context is built
OptimInit(tr) == tr.param


\* ------------------------------------------------------ Linear: setters
\* set_max_iter: the test of the loop body, negated
MaxIterOk(maxiter) == \A i \in 1..Len(maxiter) : ~(maxiter[i] < 0)

ScaleFactorOk_Mutant(scalefactor) ==
  \A lv \in 1..Len(scalefactor) : ~(scalefactor[lv] < 0 \/ scalefactor[lv] > 10)

\* set_scale_factor: the test of the loop body, negated (1.0 is 10 tenths)
ScaleFactorOk(scalefactor) ==
  \A lv \in 1..Len(scalefactor) : ~(scalefactor[lv] <= 0 \/ scalefactor[lv] > 10)

ExtentOk_Mutant(extent) == \A d \in 1..Len(extent) : ~(extent[d] < 0)

\* set_extent: the test of the loop body, negated
ExtentOk(extent) == \A d \in 1..Len(extent) : ~(extent[d] < 1)

\* set_sparsity: the test of the loop body, negated
SparsityOk(sparsity_) ==
  \A d \in 1..Len(sparsity_) : ~(sparsity_[d] < 0 \/ sparsity_[d] > 10)

\* run_masked and the setters are called by one thread, between calls
Callable == pc = "idle"

NoCall == [op |-> "none", arg |-> << >>]

NoEntry == [max_iter |-> <<>>, sparsity |-> <<>>]

\* no image: outside run_masked the locals midway_image, midway_resized do not exist
NoImage == << >>

\* what every new call does to the observation of the previous one
NewCall(op, arg) ==
  /\ call' = [op |-> op, arg |-> arg]
  /\ log' = <<>>
  /\ writes' = 0
  /\ level' = 0
  /\ optim_start' = 0
  /\ optim_state' = 0

set_max_iter(maxiter) ==
  /\ Callable
  /\ NewCall("set_max_iter", maxiter)
  /\ entry' = NoEntry
  /\ pc' = "returned"
  /\ IF MaxIterOk(maxiter)
       THEN max_iter' = maxiter /\ error' = NoError
       ELSE max_iter' = max_iter /\ error' = ErrMaxIter
  /\ UNCHANGED <<scale_factor, sparsity, kernel_extent, init_type, transform>>
  /\ UNCHANGED <<cfgmore, midway_image, midway_resized>>
  /\ UNCHANGED lnvars

set_scale_factor(scalefactor) ==
  /\ Callable
  /\ NewCall("set_scale_factor", scalefactor)
  /\ entry' = NoEntry
  /\ pc' = "returned"
  /\ IF ScaleFactorOk(scalefactor)
       THEN scale_factor' = scalefactor /\ error' = NoError
       ELSE scale_factor' = scale_factor /\ error' = ErrScale
  /\ UNCHANGED <<max_iter, sparsity, kernel_extent, init_type, transform>>
  /\ UNCHANGED <<cfgmore, midway_image, midway_resized>>
  /\ UNCHANGED lnvars

set_extent(extent) ==
  /\ Callable
  /\ NewCall("set_extent", extent)
  /\ entry' = NoEntry
  /\ pc' = "returned"
  /\ IF ExtentOk(extent)
       THEN kernel_extent' = extent /\ error' = NoError
       ELSE kernel_extent' = kernel_extent /\ error' = ErrExtent
  /\ UNCHANGED <<max_iter, scale_factor, sparsity, init_type, transform>>
  /\ UNCHANGED <<cfgmore, midway_image, midway_resized>>
  /\ UNCHANGED lnvars

set_sparsity(sparsity_) ==
  /\ Callable
  /\ NewCall("set_sparsity", sparsity_)
  /\ entry' = NoEntry
  /\ pc' = "returned"
  /\ IF SparsityOk(sparsity_)
       THEN sparsity' = sparsity_ /\ error' = NoError
       ELSE sparsity' = sparsity /\ error' = ErrSparsity
  /\ UNCHANGED <<max_iter, scale_factor, kernel_extent, init_type, transform>>
  /\ UNCHANGED <<cfgmore, midway_image, midway_resized>>
  /\ UNCHANGED lnvars

set_init_type(type) ==
  /\ Callable
  /\ NewCall("set_init_type", <<>>)
  /\ entry' = NoEntry
  /\ pc' = "returned"
  /\ init_type' = type
  /\ error' = NoError
  /\ UNCHANGED <<max_iter, scale_factor, sparsity, kernel_extent, transform>>
  /\ UNCHANGED <<cfgmore, midway_image, midway_resized>>
  /\ UNCHANGED lnvars

\* lines 95-99
set_smoothing_factor(smoothing_factor) ==
  /\ Callable
  /\ NewCall("set_smoothing_factor", <<smoothing_factor>>)
  /\ entry' = NoEntry
  /\ pc' = "returned"
  /\ IF smoothing_factor < 0
       THEN smooth_factor' = smooth_factor /\ error' = ErrSmooth
       ELSE smooth_factor' = smoothing_factor /\ error' = NoError
  /\ UNCHANGED <<max_iter, scale_factor, sparsity, kernel_extent, init_type,
                 grad_tolerance, directions, midway_image, midway_resized,
                 transform>>
  /\ UNCHANGED lnvars

\* lines 124-126
set_directions(dir) ==
  /\ Callable
  /\ NewCall("set_directions", <<dir>>)
  /\ entry' = NoEntry
  /\ pc' = "returned"
  /\ directions' = dir
  /\ error' = NoError
  /\ UNCHANGED <<max_iter, scale_factor, sparsity, kernel_extent, init_type,
                 smooth_factor, grad_tolerance, midway_image, midway_resized,
                 transform>>
  /\ UNCHANGED lnvars

\* lines 128-130
set_grad_tolerance(tolerance) ==
  /\ Callable
  /\ NewCall("set_grad_tolerance", <<tolerance>>)
  /\ entry' = NoEntry
  /\ pc' = "returned"
  /\ grad_tolerance' = tolerance
  /\ error' = NoError
  /\ UNCHANGED <<max_iter, scale_factor, sparsity, kernel_extent, init_type,
                 smooth_factor, directions, midway_image, midway_resized,
                 transform>>
  /\ UNCHANGED lnvars

\* --------------------------------------------------- Linear: run_masked
\* element of a std::vector at a 0-based index
At(v, i) == v[i + 1]

Entry(op, lv, val) == [op |-> op, level |-> lv, val |-> val]

LengthError_Mutant(v, n) == Len(v) > n

\* "else if (v.size() != scale_factor.size()) throw", reached when size() != 1
LengthError(v, n) == Len(v) # 1 /\ Len(v) # n

Broadcast_Mutant(v, n) == IF Len(v) = 1 THEN Resize(v, n, 0) ELSE v

BroadcastNotStored_Mutant(v, n) == v

\* "if (v.size() == 1) v.resize (scale_factor.size(), v[0])"
Broadcast(v, n) == IF Len(v) = 1 THEN Resize(v, n, v[1]) ELSE v

\* lines 181-189: the two broadcasts and the two length checks, in order
Validate ==
  /\ Callable
  /\ NewCall("run", <<>>)
  /\ entry' = [max_iter |-> max_iter, sparsity |-> sparsity]
  /\ IF LengthError(max_iter, Len(scale_factor))
       THEN /\ pc' = "error"
            /\ error' = ErrMaxIterLen
            /\ UNCHANGED <<max_iter, sparsity>>
       ELSE /\ max_iter' = Broadcast(max_iter, Len(scale_factor))
            /\ IF LengthError(sparsity, Len(scale_factor))
                 THEN /\ pc' = "error"
                      /\ error' = ErrSparsityLen
                      /\ UNCHANGED sparsity
                 ELSE /\ pc' = "validated"
                      /\ error' = NoError
                      /\ sparsity' = Broadcast(sparsity, Len(scale_factor))
  /\ UNCHANGED <<scale_factor, kernel_extent, init_type, transform>>
  /\ UNCHANGED <<cfgmore, midway_image, midway_resized>>
  /\ UNCHANGED lnvars

\* lines 192-195: which initialiser is called
InitialiseLog ==
  IF init_type = "mass"
    THEN << Entry("initialise_using_image_mass", 0, <<>>) >>
    ELSE IF init_type = "geometric"
      THEN << Entry("initialise_using_image_centres", 0, <<>>) >>
      ELSE << >>

\* lines 199-202: init_transforms, the two half transforms in this order
InitTransforms(tr) == <<tr.half, tr.half_inv>>

\* lines 234-240: compute_minimum_average_header of the two image headers
\* (fixed for a run) under init_transforms; the grid is a function of them
MidwayHeader(init_transforms) == [grid |-> init_transforms]

\* lines 191-241: initialise the transform from the images (the result
\* depends on the images, so it is any parameter vector), capture the two
\* half transforms and compute the midway image from them
Initialise ==
  /\ pc = "validated"
  /\ \E p \in ParamVals :
       LET tr == IF init_type \in {"mass", "geometric"}
                   THEN SetParameterVector(transform, p)
                   ELSE transform
       IN /\ (init_type \notin {"mass", "geometric"} => p = 0)
          /\ transform' = tr
          /\ midway_image' = MidwayHeader(InitTransforms(tr))
          /\ log' = log \o InitialiseLog
                       \o << Entry("midway", 0, <<tr.half, tr.half_inv>>) >>
  /\ pc' = "initialized"
  /\ UNCHANGED <<max_iter, scale_factor, sparsity, kernel_extent, init_type,
                 level, optim_start, optim_state, call, error, entry, writes>>
  /\ UNCHANGED <<cfgmore, midway_resized>>
  /\ UNCHANGED lnvars

\* line 243: the loop condition
LoopContinues(lv) == lv < Len(scale_factor)

\* lines 244-248: the progress message of a level
Console(lv, sf, sp) ==
  IF At(sp, lv) > 0
    THEN <<lv + 1, At(sf, lv), At(sp, lv)>>
    ELSE <<lv + 1, At(sf, lv)>>

\* lines 244-302: what the preparation of a level does, in order
PrepareLog(lv, sf, sp) ==
  << Entry("console", lv, Console(lv, sf, sp)),
     Entry("resize_midway", lv, <<At(sf, lv)>>),
     Entry("smooth_im1", lv, <<At(sf, lv), smooth_factor>>),
     Entry("smooth_im2", lv, <<At(sf, lv), smooth_factor>>) >>

\* line 73: step_tolerance, a member without a setter (1.0e-10)
step_tolerance == -10

OptimTolerances_Mutant(gt, st) == <<gt, st, -10, -10>>

\* line 333: the four tolerances given to optim.run are the literals 1.0e-30;
\* line 332, with grad_tolerance and step_tolerance, is commented out
OptimTolerances(gt, st) == <<-30, -30, -30, -30>>

\* lines 304-333: what is bound into the metric context and given to optim.run
OptimiseLog(lv, mi, sp, ke) ==
  << Entry("sparsity", lv, <<At(sp, lv)>>),
     Entry("set_extent", lv, ke) >>
  \o (IF directions # 0 THEN << Entry("set_directions", lv, <<directions>>) >>
                         ELSE << >>)
  \o << Entry("optim.run", lv,
               <<At(mi, lv)>> \o OptimTolerances(grad_tolerance, step_tolerance)) >>

\* line 334
CommitLog(lv) == << Entry("set_parameter_vector", lv, << >>) >>

MidwayResize_Mutant(mw, tr, s) ==
  [src |-> MidwayHeader(InitTransforms(tr)), scale |-> s]

\* lines 283-290: midway_resize_filter (midway_image, midway_resized) at the
\* scale factor of the level; the transform is not consulted
MidwayResize(mw, tr, s) == [src |-> mw, scale |-> s]

\* lines 243-302: loop test, progress message, smoothing of both images and
\* resize of the midway image at the scale factor of the level
PrepareLevel ==
  /\ pc \in {"initialized", "committed"}
  /\ LoopContinues(level)
  /\ pc' = "preparing"
  /\ log' = log \o PrepareLog(level, scale_factor, sparsity)
  /\ midway_resized' = MidwayResize(midway_image, transform, At(scale_factor, level))
  /\ UNCHANGED <<max_iter, scale_factor, sparsity, kernel_extent, init_type,
                 transform, level, optim_start, optim_state, call, error,
                 entry, writes>>
  /\ UNCHANGED <<cfgmore, midway_image>>
  /\ UNCHANGED lnvars

\* lines 304-333: metric context (sparsity, kernel extent), optimizer
\* construction and optim.run; the optimizer's final state is any vector
Optimise ==
  /\ pc = "preparing"
  /\ pc' = "optimizing"
  /\ log' = log \o OptimiseLog(level, max_iter, sparsity, kernel_extent)
  /\ optim_start' = OptimInit(transform)
  /\ \E st \in ParamVals : optim_state' = st
  /\ UNCHANGED <<max_iter, scale_factor, sparsity, kernel_extent, init_type,
                 transform, level, call, error, entry, writes>>
  /\ UNCHANGED <<cfgmore, midway_image, midway_resized>>
  /\ UNCHANGED lnvars

CommitParameters_Mutant(tr, st) == tr

CommitHalfOnly_Mutant(tr, st) == [tr EXCEPT !.param = st, !.half = st]

\* line 334: parameters.transformation.set_parameter_vector (optim.state())
CommitParameters(tr, st) == SetParameterVector(tr, st)

NextLevel_Mutant(lv) == lv + 2

\* line 243: level++
NextLevel(lv) == lv + 1

\* lines 334-344: commit of the optimizer's state, end of the loop body
Commit ==
  /\ pc = "optimizing"
  /\ pc' = "committed"
  /\ transform' = CommitParameters(transform, optim_state)
  /\ writes' = writes + 1
  /\ log' = log \o CommitLog(level)
  /\ level' = NextLevel(level)
  /\ UNCHANGED <<max_iter, scale_factor, sparsity, kernel_extent, init_type,
                 optim_start, optim_state, call, error, entry>>
  /\ UNCHANGED <<cfgmore, midway_image, midway_resized>>
  /\ UNCHANGED lnvars

\* line 243 and 356: the loop condition fails and run_masked returns
Finish ==
  /\ pc \in {"initialized", "committed"}
  /\ ~LoopContinues(level)
  /\ pc' = "done"
  /\ UNCHANGED <<max_iter, scale_factor, sparsity, kernel_extent, init_type,
                 transform, level, optim_start, optim_state, call, error,
                 entry, log, writes>>
  /\ UNCHANGED <<cfgmore, midway_image, midway_resized>>
  /\ UNCHANGED lnvars

\* the call has returned or thrown: control is back in the caller, which
\* keeps the Linear object and the transform and may call again
Return ==
  /\ pc \in {"returned", "done", "error"}
  /\ pc' = "idle"
  /\ call' = NoCall
  /\ error' = NoError
  /\ entry' = NoEntry
  /\ log' = << >>
  /\ writes' = 0
  /\ level' = 0
  /\ optim_start' = 0
  /\ optim_state' = 0
  /\ UNCHANGED <<max_iter, scale_factor, sparsity, kernel_extent, init_type,
                 transform>>
  /\ midway_image' = NoImage
  /\ midway_resized' = NoImage
  /\ UNCHANGED cfgmore
  /\ UNCHANGED lnvars

\* ------------------------------------------------------ mt_lognorm: run
DEFAULT_MAXITER_VALUE == 10

\* n_tissue_types is 2, the least the command accepts (line 139); the scale
\* factors of a solve, in thousandths: line 261 leaves them with product one
SFVectors == {<<1000, 1000>>, <<1001, 999>>, <<1010, 990>>}
Unassigned == << >>

Abs(x) == IF x < 0 THEN -x ELSE x

\* lines 268-271: diff = |previous - current| / previous, diff.mean() < 0.001
\* for two tissue types: (d1/p1 + d2/p2) / 2 < 1/1000
RelChangeSmall(prev, cur) ==
  (Abs(prev[1] - cur[1]) * prev[2] + Abs(prev[2] - cur[2]) * prev[1]) * 1000
     < 2 * prev[1] * prev[2]

\* the voxels of the image grid
Voxels == 1..MaxVoxels
\* values of a voxel of the summed images; 0 stands for every value that is
\* not positive or not finite
SumVals == {0, 1, 9}
\* what a read past the end of the value vector can return
GarbageVals == SumVals \cup {-9, 50}

NoQuartiles == [n |-> -1, lower |-> -1, upper |-> -1]
NoOutput == [from |-> Unassigned, normalisation_scale_factor |-> Unassigned,
             bias_field |-> "none"]

\* lines 121-131: refine_mask
refine_mask(summed, initial) == { v \in initial : summed[v] > 0 }

\* lines 293-303: the values of the mask voxels, sorted
RECURSIVE SortedValues(_, _)
SortedValues(summed_log, m) ==
  IF m = {} THEN << >>
  ELSE LET v == CHOOSE v \in m : \A w \in m : summed_log[v] <= summed_log[w]
       IN  <<summed_log[v]>> \o SortedValues(summed_log, m \ {v})

\* lines 304-305: std::round ((float)num_voxels * 0.25) and * 0.75, halfway
\* cases away from zero; quarter is 1 or 3
QuartileIndex(n, quarter) == (quarter * n + 2) \div 4

\* operator[] of std::vector: the element, or anything past the end
ReadAt(values, i) ==
  IF i < Len(values) THEN {values[i + 1]} ELSE GarbageVals

\* lines 306-307 and 313, in tenths
IsOutlier(x, lower_quartile, upper_quartile) ==
  \/ 10 * x < 10 * lower_quartile - 16 * (upper_quartile - lower_quartile)
  \/ 10 * x > 10 * upper_quartile + 16 * (upper_quartile - lower_quartile)

CountAfterRejection_Mutant(n, rejected) == n

\* lines 299 and 315: num_voxels is the size of the value vector, less one for
\* every rejected voxel
CountAfterRejection(n, rejected) == n - Cardinality(rejected)

\* lines 388-393: exp of the mean of the logs, for two tissue types: the
\* square root of the product, which lies between the two factors
GeometricMean(sf) ==
  LET lo == IF sf[1] < sf[2] THEN sf[1] ELSE sf[2]
      hi == IF sf[1] < sf[2] THEN sf[2] ELSE sf[1]
  IN  CHOOSE r \in lo..hi :
        r * r <= sf[1] * sf[2] /\ sf[1] * sf[2] < (r + 1) * (r + 1)

\* lines 386-394: without -independent every factor becomes the mean
OutputScaleFactors(sf, independent) ==
  IF independent THEN sf ELSE [j \in 1..2 |-> GeometricMean(sf)]

\* lines 172-196: load the mask, refine it, count its voxels
LnLoadMask ==
  /\ ln_pc = "load"
  /\ \E summed \in [orig_mask -> SumVals] :
       /\ initial_mask' = refine_mask(summed, orig_mask)
       /\ mask' = initial_mask'
       /\ num_voxels' = Cardinality(mask')
  /\ ln_pc' = IF num_voxels' = 0 THEN "error" ELSE "outer_head"
  /\ UNCHANGED <<orig_mask, quartiles>>
  /\ UNCHANGED <<lnloop, lnout>>
  /\ UNCHANGED linvars

\* line 224: while (iter < max_iter)
LnOuterHead ==
  /\ ln_pc = "outer_head"
  /\ ln_pc' = IF iter < ln_max_iter THEN "outer_body" ELSE "output"
  /\ UNCHANGED <<ln_max_iter, iter, norm_iter, norm_converged,
                 scale_factors, previous_scale_factors>>
  /\ UNCHANGED <<lnmask, lnout>>
  /\ UNCHANGED linvars

\* lines 227-232: the locals of the outer loop body
LnOuterBody ==
  /\ ln_pc = "outer_body"
  /\ norm_iter' = 1
  /\ norm_converged' = FALSE
  /\ ln_pc' = "inner_head"
  /\ UNCHANGED <<ln_max_iter, iter, scale_factors, previous_scale_factors>>
  /\ UNCHANGED <<lnmask, lnout>>
  /\ UNCHANGED linvars

\* line 234: while (!norm_converged && norm_iter < max_iter)
LnInnerHead ==
  /\ ln_pc = "inner_head"
  /\ ln_pc' = IF ~norm_converged /\ norm_iter < ln_max_iter
                THEN "solve" ELSE "bias"
  /\ UNCHANGED <<ln_max_iter, iter, norm_iter, norm_converged,
                 scale_factors, previous_scale_factors>>
  /\ UNCHANGED <<lnmask, lnout>>
  /\ UNCHANGED linvars

\* lines 238-276: solve for the scale factors (any vector), normalise them,
\* check for convergence only if (iter > 1)
LnSolve ==
  /\ ln_pc = "solve"
  /\ \E sf \in SFVectors :
       /\ scale_factors' = sf
       /\ norm_converged' = IF iter > 1 /\ RelChangeSmall(previous_scale_factors, sf)
                              THEN TRUE ELSE norm_converged
  /\ ln_pc' = IF norm_converged' THEN "inner_tail" ELSE "outlier"
  /\ UNCHANGED <<ln_max_iter, iter, norm_iter, previous_scale_factors>>
  /\ UNCHANGED <<lnmask, lnout>>
  /\ UNCHANGED linvars

\* lines 276-322: outlier rejection, entered if (!norm_converged): the mask
\* is refined from the initial mask, its values are sorted, the quartiles are
\* read and the voxels beyond the thresholds leave the mask; a read past the
\* end of the vector returns anything or ends the process
LnOutlier ==
  /\ ln_pc = "outlier"
  /\ \E summed_log \in [initial_mask -> SumVals] :
       LET refined == refine_mask(summed_log, initial_mask)
           summed_log_values == SortedValues(summed_log, refined)
           n == Len(summed_log_values)
           lower == QuartileIndex(n, 1)
           upper == QuartileIndex(n, 3)
       IN  /\ quartiles' = [n |-> n, lower |-> lower, upper |-> upper]
           /\ \/ \E lower_quartile \in ReadAt(summed_log_values, lower),
                    upper_quartile \in ReadAt(summed_log_values, upper) :
                   LET rejected ==
                         { v \in refined :
                             IsOutlier(summed_log[v], lower_quartile, upper_quartile) }
                   IN  /\ mask' = refined \ rejected
                       /\ num_voxels' = CountAfterRejection(n, rejected)
                       /\ ln_pc' = "inner_tail"
              \/ /\ ~(lower < n /\ upper < n)
                 /\ mask' = refined
                 /\ num_voxels' = n
                 /\ ln_pc' = "crashed"
  /\ UNCHANGED <<orig_mask, initial_mask>>
  /\ UNCHANGED <<lnloop, lnout>>
  /\ UNCHANGED linvars

\* lines 324-326: previous_scale_factors = scale_factors; norm_iter++
LnInnerTail ==
  /\ ln_pc = "inner_tail"
  /\ previous_scale_factors' = scale_factors
  /\ norm_iter' = norm_iter + 1
  /\ ln_pc' = "inner_head"
  /\ UNCHANGED <<ln_max_iter, iter, norm_converged, scale_factors>>
  /\ UNCHANGED <<lnmask, lnout>>
  /\ UNCHANGED linvars

\* lines 333-368: bias field fit; iter++
LnBias ==
  /\ ln_pc = "bias"
  /\ bias_field' = "fitted"
  /\ iter' = iter + 1
  /\ ln_pc' = "outer_head"
  /\ UNCHANGED <<ln_max_iter, norm_iter, norm_converged,
                 scale_factors, previous_scale_factors>>
  /\ UNCHANGED <<lnmask, output>>
  /\ UNCHANGED linvars

\* lines 371-411: the outputs are written; an unassigned vector reads as
\* anything
LnOutput ==
  /\ ln_pc = "output"
  /\ \E independent \in BOOLEAN :
       \E written \in (IF scale_factors = Unassigned
                         THEN SFVectors
                         ELSE {OutputScaleFactors(scale_factors, independent)}) :
          output' = [from |-> scale_factors,
                     normalisation_scale_factor |-> written,
                     bias_field |-> bias_field]
  /\ ln_pc' = "done"
  /\ UNCHANGED <<lnloop, lnmask, bias_field>>
  /\ UNCHANGED linvars

\* -------------------------------------------------------- specifications
\* Linear::Linear (), lines 66-78, and an identity transform of the caller
InitLinear ==
  /\ max_iter = <<300>>
  /\ scale_factor = <<5, 10>>
  /\ sparsity = <<0>>
  /\ kernel_extent = <<1, 1, 1>>
  /\ init_type = "mass"
  /\ smooth_factor = 10
  /\ grad_tolerance = -6
  /\ directions = 0
  /\ midway_image = NoImage
  /\ midway_resized = NoImage
  /\ transform = SetParameterVector([param |-> 0, half |-> 0, half_inv |-> 0], Identity)
  /\ pc = "idle"
  /\ level = 0
  /\ optim_start = 0
  /\ optim_state = 0
  /\ call = NoCall
  /\ error = NoError
  /\ entry = NoEntry
  /\ log = << >>
  /\ writes = 0

\* mt_lognorm run () on entry, lines 172-174 and 204-221, with -maxiter m and
\* the mask image om
InitLn(m, om) ==
  /\ ln_pc = "load"
  /\ orig_mask = om
  /\ initial_mask = {}
  /\ mask = {}
  /\ num_voxels = 0
  /\ quartiles = NoQuartiles
  /\ bias_field = "ones"
  /\ output = NoOutput
  /\ ln_max_iter = m
  /\ iter = 1
  /\ norm_iter = 1
  /\ norm_converged = FALSE
  /\ scale_factors = Unassigned
  /\ previous_scale_factors = Unassigned

Init == InitLinear /\ InitLn(DEFAULT_MAXITER_VALUE, Voxels)

Next ==
  \/ \E maxiter \in IterInputs : set_max_iter(maxiter)
  \/ \E scalefactor \in ScaleInputs : set_scale_factor(scalefactor)
  \/ \E extent \in ExtentInputs : set_extent(extent)
  \/ \E sparsity_ \in SparsityInputs : set_sparsity(sparsity_)
  \/ \E type \in InitTypes : set_init_type(type)
  \/ Validate
  \/ Initialise
  \/ PrepareLevel
  \/ Optimise
  \/ Commit
  \/ Finish
  \/ Return

Spec == Init /\ [][Next]_vars

\* every setter of the class and the driver
NextConfig ==
  \/ Next
  \/ \E smoothing_factor \in SmoothVals : set_smoothing_factor(smoothing_factor)
  \/ \E dir \in DirectionVals : set_directions(dir)
  \/ \E tolerance \in ToleranceVals : set_grad_tolerance(tolerance)

SpecConfig == Init /\ [][NextConfig]_vars

\* the driver with the tolerance, the iteration limits and the levels set
NextTolerance ==
  \/ \E tolerance \in ToleranceVals : set_grad_tolerance(tolerance)
  \/ \E maxiter \in IterInputs : set_max_iter(maxiter)
  \/ \E scalefactor \in ScaleInputs : set_scale_factor(scalefactor)
  \/ Validate
  \/ Initialise
  \/ PrepareLevel
  \/ Optimise
  \/ Commit
  \/ Finish
  \/ Return

SpecTolerance == Init /\ [][NextTolerance]_vars

InitLognorm ==
  InitLinear /\ \E m \in 0..MaxLnIter, om \in SUBSET Voxels : InitLn(m, om)

NextLognorm ==
  \/ LnLoadMask
  \/ LnOuterHead
  \/ LnOuterBody
  \/ LnInnerHead
  \/ LnSolve
  \/ LnOutlier
  \/ LnInnerTail
  \/ LnBias
  \/ LnOutput

SpecLognorm == InitLognorm /\ [][NextLognorm]_vars

\* ================================================================ claims
InUnitInterval(x) == x > 0 /\ x <= 10
RunPhases == {"validated", "initialized", "preparing", "optimizing",
              "committed", "done"}

\* C1: set_max_iter rejects every sequence with an element <= 0 (an error is
\* raised), so that no level is ever optimised with an iteration limit <= 0.
C1_NonPositiveRejected ==
  /\ (call.op = "set_max_iter" /\ \E i \in 1..Len(call.arg) : call.arg[i] <= 0)
        => error = ErrMaxIter
  /\ \A i \in 1..Len(max_iter) : max_iter[i] > 0
  /\ \A i \in 1..Len(log) : log[i].op = "optim.run" => log[i].val[1] > 0

C3_BadLength(v) == Len(v) # 1 /\ Len(v) # Len(scale_factor)

C3_LengthChecked ==
  call.op = "run" =>
    /\ (C3_BadLength(entry.max_iter) \/ C3_BadLength(entry.sparsity))
          => /\ pc = "error"
             /\ error \in {ErrMaxIterLen, ErrSparsityLen}
             /\ log = << >>
             /\ writes = 0
    /\ pc \in RunPhases
          => /\ Len(max_iter) = Len(scale_factor)
             /\ Len(sparsity) = Len(scale_factor)
             /\ error = NoError

C3_Witness ==
  /\ call.op = "run"
  /\ pc = "error"
  /\ Len(entry.max_iter) = 0
  /\ Len(scale_factor) >= 1
  /\ error = ErrMaxIterLen

\* C4: when run_masked raises a configuration error, the transform and the
\* stored configuration arrays are what they were before the call.
C4_NoPartialSideEffects ==
  [][(call'.op = "run" /\ pc' = "error")
        => /\ max_iter' = max_iter
           /\ sparsity' = sparsity
           /\ scale_factor' = scale_factor
           /\ kernel_extent' = kernel_extent
           /\ transform' = transform]_vars

\* C5: a completed run entered with a singleton max_iter (or sparsity) array
\* performs, level by level, the operations with the values that a run with
\* the array pre-expanded to one copy per level performs.
C5_PreExpanded(v) ==
  IF Len(v) = 1 THEN [i \in 1..Len(scale_factor) |-> v[1]] ELSE v

C5_IsLevelOp(e) == e.op \notin {"initialise_using_image_mass",
                               "initialise_using_image_centres", "midway"}

RECURSIVE C5_LevelOps(_, _, _)
C5_LevelOps(lv, mi, sp) ==
  IF lv >= Len(scale_factor) THEN << >>
  ELSE PrepareLog(lv, scale_factor, sp)
         \o OptimiseLog(lv, mi, sp, kernel_extent)
         \o CommitLog(lv)
         \o C5_LevelOps(lv + 1, mi, sp)

C5_BroadcastEquivalence ==
  (pc = "done" /\ (Len(entry.max_iter) = 1 \/ Len(entry.sparsity) = 1))
    => SelectSeq(log, C5_IsLevelOp)
         = C5_LevelOps(0, C5_PreExpanded(entry.max_iter),
                          C5_PreExpanded(entry.sparsity))

C5_Witness ==
  /\ pc = "done"
  /\ entry.max_iter = <<300>>
  /\ entry.sparsity = <<5>>
  /\ Len(scale_factor) = 2
  /\ \E i \in 1..Len(log) :
        log[i].op = "optim.run" /\ log[i].level = 1 /\ log[i].val[1] = 300

\* C6: the position of the driver only moves along
\* idle -> validated -> initialized -> (preparing -> optimizing -> committed)*
\* -> done, or idle -> error; the level prepared is the number of levels
\* committed so far, each commit advances the level by one, and done is
\* entered only with all scale_factor.size() levels committed.
C6_Edges ==
  { <<"idle", "returned">>, <<"idle", "validated">>, <<"idle", "error">>,
    <<"validated", "initialized">>,
    <<"initialized", "preparing">>, <<"initialized", "done">>,
    <<"preparing", "optimizing">>, <<"optimizing", "committed">>,
    <<"committed", "preparing">>, <<"committed", "done">>,
    <<"returned", "idle">>, <<"done", "idle">>, <<"error", "idle">> }

C6_PhaseOrder ==
  [][/\ <<pc, pc'>> \in C6_Edges
     /\ pc' = "preparing"
          => (level' = writes' /\ level' < Len(scale_factor) /\ level' = level)
     /\ pc' = "optimizing" => level' = level
     /\ pc' = "committed" => (level' = level + 1 /\ writes' = writes + 1)
     /\ pc' = "done"
          => (writes' = Len(scale_factor) /\ level' = Len(scale_factor))]_vars

C6_Witness == pc = "done" /\ writes = 2 /\ level = 2

\* C7: within a run the transform is written by the initialisation and then
\* exactly once per level, by the commit, with the optimizer's final state;
\* nothing else changes it, and from the second level on the optimizer starts
\* from the state committed at the previous level.
C7_OneCommitPerLevel ==
  [][/\ pc' = "committed"
          => (transform'.param = optim_state /\ writes' = writes + 1)
     /\ (pc' \notin {"committed", "initialized"}) => transform' = transform
     /\ pc' = "done" => writes' = Len(scale_factor)
     /\ (pc' = "optimizing" /\ level >= 1) => optim_start' = optim_state]_vars

C7_Witness ==
  /\ pc = "optimizing"
  /\ level = 1
  /\ optim_start = 2
  /\ optim_state = 1
  /\ writes = 1

C9_State ==
  /\ \A d \in 1..Len(kernel_extent) : kernel_extent[d] >= 1
  /\ call.op = "set_extent"
       => IF \E d \in 1..Len(call.arg) : call.arg[d] < 1
            THEN error = ErrExtent
            ELSE error = NoError /\ kernel_extent = call.arg
  /\ \A i \in 1..Len(log) : log[i].op = "set_extent" => log[i].val = kernel_extent

C9_KernelExtent ==
  /\ []C9_State
  /\ [][(call'.op = "set_extent" /\ error' = ErrExtent)
          => kernel_extent' = kernel_extent]_vars

C9_Witness ==
  /\ pc = "done"
  /\ kernel_extent = <<2>>
  /\ \E i \in 1..Len(log) :
        log[i].op = "set_extent" /\ log[i].level = 1 /\ log[i].val = <<2>>

\* C10: the main loop of mt_lognorm performs at most maxiter iterations and
\* does not start another iteration once convergence has been detected; the
\* inner loop goes on to outlier rejection only if the scale factors of the
\* last two solves have not converged, in every outer iteration.
C10_StopsOnConvergence ==
  /\ iter - 1 <= ln_max_iter
  /\ ln_pc = "outer_body" => ~norm_converged
  /\ ln_pc = "outlier"
       => ~(previous_scale_factors # Unassigned
              /\ RelChangeSmall(previous_scale_factors, scale_factors))

\* C11: in a run the midway image is computed once, by the initialisation
\* step and before any level, from the half transform and its inverse as they
\* are right after initialisation; no later step of the run changes it, and
\* the resize of every level reads that image.
C11_MidwayEntries == { i \in 1..Len(log) : log[i].op = "midway" }

C11_State ==
  /\ pc \in (RunPhases \ {"validated"})
       => /\ Cardinality(C11_MidwayEntries) = 1
          /\ \A i \in C11_MidwayEntries :
                /\ midway_image = MidwayHeader(log[i].val)
                /\ \A j \in 1..Len(log) : log[j].op = "console" => i < j
  /\ pc = "initialized"
       => midway_image = MidwayHeader(<<transform.half, transform.half_inv>>)
  /\ pc \in {"preparing", "optimizing", "committed"}
       => midway_resized.src = midway_image

C11_MidwayOnce ==
  /\ []C11_State
  /\ [][(pc \in (RunPhases \ {"validated"}) /\ pc' \in RunPhases)
           => midway_image' = midway_image]_vars

C11_Witness ==
  /\ pc = "preparing"
  /\ level = 1
  /\ transform.half # midway_image.grid[1]
  /\ midway_resized.src = midway_image

\* C12: no step of run_masked, from its entry to its return or throw,
\* changes max_iter, scale_factor, sparsity, smooth_factor, kernel_extent,
\* init_type or directions.
C12_ConfigReadOnly ==
  [][(call'.op = "run" /\ pc' \in (RunPhases \cup {"error"}))
        => /\ max_iter' = max_iter
           /\ scale_factor' = scale_factor
           /\ sparsity' = sparsity
           /\ smooth_factor' = smooth_factor
           /\ kernel_extent' = kernel_extent
           /\ init_type' = init_type
           /\ directions' = directions]_vars

\* C13: every call of optim.run of a run has the iteration limit
\* max_iter[level] and the four tolerances 1.0e-30, whatever value
\* grad_tolerance (set by set_grad_tolerance or defaulted) and step_tolerance
\* have: the calls are a function of max_iter and the level alone.
C13_TolerancesIgnored ==
  \A i \in 1..Len(log) :
     log[i].op = "optim.run"
       => log[i].val = <<At(max_iter, log[i].level), -30, -30, -30, -30>>

C13_Witness ==
  /\ pc = "done"
  /\ grad_tolerance = -3
  /\ \E i \in 1..Len(log) :
        log[i].op = "optim.run" /\ log[i].level = 1 /\ log[i].val[1] = 300

\* C14: from validation to the return of run_masked the members max_iter
\* and sparsity have scale_factor.size() elements; set_scale_factor leaves
\* both as they are; and a run entered with a max_iter (or, max_iter passing,
\* a sparsity) whose length is neither 1 nor the new number of levels throws
\* the corresponding length error. So a run with L # 1 levels, then
\* set_scale_factor with L' # L levels, then run, throws.
C14_State ==
  pc \in RunPhases
    => /\ Len(max_iter) = Len(scale_factor)
       /\ Len(sparsity) = Len(scale_factor)

C14_BroadcastPersists ==
  /\ []C14_State
  /\ [][/\ call'.op = "set_scale_factor"
             => (max_iter' = max_iter /\ sparsity' = sparsity)
        /\ (call'.op = "run" /\ Len(max_iter) \notin {1, Len(scale_factor)})
             => (pc' = "error" /\ error' = ErrMaxIterLen)
        /\ (call'.op = "run" /\ Len(max_iter) \in {1, Len(scale_factor)}
              /\ Len(sparsity) \notin {1, Len(scale_factor)})
             => (pc' = "error" /\ error' = ErrSparsityLen)]_vars

\* with callers passing arrays of at most one element, a max_iter of two
\* elements is the broadcast of an earlier run with the two default levels
C14_Witness ==
  /\ pc = "error"
  /\ call.op = "run"
  /\ error = ErrMaxIterLen
  /\ entry.max_iter = <<300, 300>>
  /\ entry.sparsity = <<0, 0>>
  /\ Len(scale_factor) = 1

\* C15: whenever outlier rejection has run, with n the number of voxels the
\* refined mask holds, the two quartile indices round(0.25*n) and
\* round(0.75*n) it read are indices 0..n-1 of the sorted value vector.
C15_QuartilesInBounds ==
  quartiles # NoQuartiles
    => /\ quartiles.lower \in 0..(quartiles.n - 1)
       /\ quartiles.upper \in 0..(quartiles.n - 1)

\* C16: when the outputs have been written, the scale factors they were
\* computed from had been assigned by a solve and the bias field had been
\* fitted, for every value of -maxiter.
C16_OutputAssigned ==
  ln_pc = "done"
    => /\ output.from # Unassigned
       /\ output.bias_field = "fitted"

\* C17: at the scale-factor solve and at the bias-field solve num_voxels is
\* the number of voxels of the working mask; and always the working mask is
\* a subset of the refined initial mask, which is a subset of the mask
\* image of the caller.
C17_MaskBookkeeping ==
  /\ ln_pc \in {"solve", "bias"} => num_voxels = Cardinality(mask)
  /\ mask \subseteq initial_mask
  /\ initial_mask \subseteq orig_mask

\* a solve that follows an outlier rejection which read both quartiles
\* inside the vector and rejected a voxel
C17_Witness ==
  /\ ln_pc = "solve"
  /\ quartiles.n = 3
  /\ num_voxels = 2
  /\ Cardinality(mask) = 2
  /\ mask # initial_mask

====
